---- MODULE Spec2Model ----
(***************************************************************************)
(* Model of the Terminus build orchestrator, scripts/utils/                *)
(* tmns-build-all.py: command-line options, load_profile, the TerminusRepo *)
(* constructor, get_build_command, TerminusRepo.build and the main loop.   *)
(*                                                                         *)
(* Python values that may be None are modelled as the strings "None",      *)
(* "True" and "False"; options that argparse always delivers as a bool are *)
(* TLA+ booleans.  A directory is a sequence of path components below the  *)
(* directory the script is started in (<<>> is the start directory).       *)
(***************************************************************************)
EXTENDS Integers, Sequences, FiniteSets, TLC

VARIABLES cmd_args,     \* result of parse_command_line()
          files,        \* profile files that exist in the start directory
          dirs,         \* directories that exist in the start directory
          pc,           \* position of the process
          load,         \* what load_profile did: branch taken, file read
          profile,      \* TerminusProfile.repos (<<>> while/if there is none)
          idx,          \* position of main's loop in profile.repos
          mode_idx,     \* position of build's loop in self.build_modes
          cwd,          \* process working directory
          orig_path,    \* build's local orig_path
          invoked,      \* history: the subprocess.run calls made so far
          results,      \* history: one entry per completed repo.build() call
          main_ret,     \* return value of main(): "pending", "None" or "1"
          raised,       \* the uncaught exception, "" if none
          exit_code     \* exit status of the process, -1 while it runs

\* the variables of the build orchestrator
buildVars == <<cmd_args, files, dirs, pc, load, profile, idx, mode_idx, cwd,
               orig_path, invoked, results, main_ret, raised, exit_code>>

\* tmns-clone-repos.py
VARIABLES c_pc,         \* position of the clone orchestrator
          c_tags,       \* cmd_args.tags, the -t options in order
          c_file,       \* tmns-profile.cfg in the working directory
          c_dirs,       \* names that exist in the working directory
          c_profile,    \* Profile.repos as loaded
          c_idx,        \* position of main's loop in profile.repos
          c_selected,   \* history: the repositories that passed the tag filter
          c_cmds,       \* history: the os.system calls made so far
          c_exit        \* exit status of the process, -1 while it runs

cloneVars == <<c_pc, c_tags, c_file, c_dirs, c_profile, c_idx, c_selected,
               c_cmds, c_exit>>

\* setup-terminus.py, the shell configuration steps
VARIABLES s_pc,         \* position of the setup script
          s_args,       \* result of parse_command_line()
          s_env,        \* TRUE when ${HOME}/.local/bin is an entry of PATH
          s_rc,         \* the shell rc files: present or not, and their text
          s_runs,       \* number of completed runs of the script
          s_snap        \* history: s_rc as the first run left it

setupVars == <<s_pc, s_args, s_env, s_rc, s_runs, s_snap>>

vars == <<buildVars, cloneVars, setupVars>>

None == "None"

----------------------------------------------------------------------------
(* Program constants *)

DEFAULT_PROFILE_PATH == "tmns-profile.cfg"

DEFAULT_REPO_LIST == << "terminus-cmake", "terminus-log", "terminus-outcome",
                        "terminus-core", "terminus-math", "terminus-nitf",
                        "terminus-image", "terminus-cpp-demos" >>

----------------------------------------------------------------------------
(* Bounds of the explored inputs *)

\* at most this many -r / -d flags on the command line
MaxModeFlags == 2

\* only the first MaxDirs repositories of DEFAULT_REPO_LIST may be checked out
MaxDirs == 3

\* a profile file lists at most this many repositories
MaxCfgRepos == 1

----------------------------------------------------------------------------
(* Inputs *)

RECURSIVE SeqsUpTo(_, _)
\* all sequences over S of length at most n
SeqsUpTo(S, n) ==
    IF n = 0 THEN { <<>> }
    ELSE LET shorter == SeqsUpTo(S, n - 1)
         IN  shorter \cup { Append(s, x) : s \in shorter, x \in S }

\* -r and -d append 'release' and 'debug' to build_modes in the order given
BuildModeArgs == SeqsUpTo({"release", "debug"}, MaxModeFlags)

USER_PROFILE_PATH == "my-profile.cfg"

\* the namespaces parse_command_line can return (the log options are left
\* out, and --build-missing is not given)
CommandLines ==
    [ profile_path    : {None, USER_PROFILE_PATH},
      ignore_profiles : BOOLEAN,
      build_modes     : BuildModeArgs,
      clean_repos     : {None, "True"},
      allow_failures  : BOOLEAN,
      build_missing   : {FALSE} ]

\* a repository path as written in a profile: relative to the working
\* directory, or absolute (naming the checkout below the start directory)
RelPath(name) == [abs |-> FALSE, name |-> name]
AbsPath(name) == [abs |-> TRUE, name |-> name]

\* sections of a profile file; a key that is absent is not in the DOMAIN.
\* build_modes is the raw text, one element per word or separator.
SecRelease(n)    == [path |-> RelPath(n), build_modes |-> <<"release">>]
SecDebug(n)      == [build |-> "true", path |-> RelPath(n),
                     build_modes |-> <<"debug">>, clean_repo |-> "false"]
SecBoth(n)       == [build |-> "yes", path |-> AbsPath(n),
                     build_modes |-> <<"release", ",", "debug">>,
                     clean_repo |-> "false"]
SecDisabled(n)   == [build |-> "false", path |-> RelPath(n),
                     build_modes |-> <<"release">>, clean_repo |-> "true"]
SecEmptyModes(n) == [path |-> RelPath(n), build_modes |-> <<>>,
                     clean_repo |-> "true"]
SecNoModes(n)    == [path |-> RelPath(n), clean_repo |-> "true"]

SectionsFor(n) == { SecRelease(n), SecDebug(n), SecBoth(n), SecDisabled(n),
                    SecEmptyModes(n), SecNoModes(n) }

\* profile files: [app] repos lists the first k default repositories, and
\* each has a section
CfgFiles ==
    UNION { { [ repos    |-> SubSeq(DEFAULT_REPO_LIST, 1, k),
                sections |-> secs ] :
              secs \in { f \in [ {DEFAULT_REPO_LIST[i] : i \in 1..k} ->
                                 UNION { SectionsFor(DEFAULT_REPO_LIST[i]) : i \in 1..k } ] :
                         \A i \in 1..k :
                            f[DEFAULT_REPO_LIST[i]] \in SectionsFor(DEFAULT_REPO_LIST[i]) } } :
            k \in 1..MaxCfgRepos }

\* the only repositories that are checked out anywhere
Checkouts == { DEFAULT_REPO_LIST[i] : i \in 1..MaxDirs }

\* the checkouts present in the start directory when the script starts
FileSystems == { { <<n>> : n \in T } : T \in SUBSET Checkouts }

----------------------------------------------------------------------------
(* TerminusRepo *)

\* TerminusRepo.__init__
TerminusRepo(repo_name, repo_path, build_modes, clean_repo, build_missing) ==
    LET modes == IF Len(build_modes) = 0 THEN <<"release", "debug">>
                 ELSE build_modes
    IN  [ repo_name     |-> repo_name,
          repo_path     |-> repo_path,
          build_modes   |-> modes,
          clean_repo    |-> IF Len(modes) > 1 THEN "True" ELSE clean_repo,
          build_missing |-> build_missing ]

\* the three flag tables of get_build_command
build_flags == [release |-> "-r", debug |-> ""]
clean_flag  == [True |-> "-c", False |-> ""]
bm_flag     == [b \in BOOLEAN |-> IF b THEN "--build-missing" ELSE ""]

\* TerminusRepo.get_build_command: the command line, or the KeyError of the
\* first failing table lookup (the f-string is evaluated left to right)
get_build_command(build_mode, clean_repo, build_missing) ==
    IF build_mode \notin DOMAIN build_flags
    THEN [raised |-> "KeyError: build_flags", cmd |-> ""]
    ELSE IF clean_repo \notin DOMAIN clean_flag
    THEN [raised |-> "KeyError: clean_flag", cmd |-> ""]
    ELSE [raised |-> "",
          cmd    |-> "conan-build.sh " \o build_flags[build_mode] \o " "
                       \o clean_flag[clean_repo] \o " " \o bm_flag[build_missing]]

\* os.path.exists / os.chdir target of a path, seen from directory dir
Resolve(dir, path) == IF path.abs THEN <<path.name>> ELSE Append(dir, path.name)

----------------------------------------------------------------------------
(* load_profile *)

\* configparser's BOOLEAN_STATES
BooleanStates == [ true |-> "True", yes |-> "True", on |-> "True",
                   false |-> "False", no |-> "False", off |-> "False" ]

\* SectionProxy.getboolean( key ): None when the key is absent
getboolean(section, key) ==
    IF key \notin DOMAIN section THEN None
    ELSE IF section[key] \in DOMAIN BooleanStates THEN BooleanStates[section[key]]
    ELSE "ValueError"

RECURSIVE SplitFrom(_, _, _)
SplitFrom(text, word, done) ==
    IF text = <<>> THEN Append(done, word)
    ELSE IF Head(text) = "," THEN SplitFrom(Tail(text), "", Append(done, word))
    ELSE SplitFrom(Tail(text), word \o Head(text), done)

\* str.split(','): the empty text gives one empty word
Split(text) == SplitFrom(text, "", <<>>)

\* the if / elif chain at the head of load_profile, with the missing-file
\* test reading ignore_profiles as well
ProfileBranch_IgnoreSkipsCheck(profile_path, ignore_profiles, fs) ==
    IF profile_path # None /\ ~ignore_profiles /\ profile_path \notin fs
    THEN "missing"
    ELSE IF profile_path = None
            /\ (ignore_profiles # TRUE /\ DEFAULT_PROFILE_PATH \in fs)
    THEN "default_file"
    ELSE IF profile_path = None \/ ignore_profiles THEN "builtin"
    ELSE "given_file"

\* the if / elif chain at the head of load_profile: which source is used
ProfileBranch(profile_path, ignore_profiles, fs) ==
    IF profile_path # None /\ profile_path \notin fs THEN "missing"
    ELSE IF profile_path = None
            /\ (ignore_profiles # TRUE /\ DEFAULT_PROFILE_PATH \in fs)
    THEN "default_file"
    ELSE IF profile_path = None \/ ignore_profiles THEN "builtin"
    ELSE "given_file"

\* the repositories of the compiled-in default profile
DefaultRepos(build_modes, clean_repos, build_missing) ==
    [ i \in 1..Len(DEFAULT_REPO_LIST) |->
        TerminusRepo(DEFAULT_REPO_LIST[i], RelPath(DEFAULT_REPO_LIST[i]),
                     build_modes, clean_repos, build_missing) ]

RECURSIVE ParseRepos(_, _, _, _, _)
\* the loop over the 'repos' list of the [app] section, from entry i on
ParseRepos(cfg, i, repos, clean_repos, build_missing) ==
    IF i > Len(cfg.repos) THEN [raised |-> "", repos |-> repos]
    ELSE
    LET repo_name == cfg.repos[i] IN
    IF repo_name \notin DOMAIN cfg.sections
    THEN [raised |-> "KeyError: section", repos |-> <<>>]
    ELSE
    LET repo_info == cfg.sections[repo_name]
        build     == getboolean(repo_info, "build")
    IN
    IF build = "ValueError" THEN [raised |-> "ValueError", repos |-> <<>>]
    ELSE IF build = "False"
    THEN ParseRepos(cfg, i + 1, repos, clean_repos, build_missing)
    ELSE IF "build_modes" \notin DOMAIN repo_info
    THEN [raised |-> "AttributeError", repos |-> <<>>]
    ELSE
    LET cfg_build_modes == Split(repo_info.build_modes)
        cfg_clean       == getboolean(repo_info, "clean_repo")
        cfg_clean_repo  == IF clean_repos # None THEN clean_repos ELSE cfg_clean
    IN
    IF cfg_clean = "ValueError" THEN [raised |-> "ValueError", repos |-> <<>>]
    ELSE ParseRepos(cfg, i + 1,
                    Append(repos, TerminusRepo(repo_name, repo_info.path,
                                               cfg_build_modes, cfg_clean_repo,
                                               build_missing)),
                    clean_repos, build_missing)

\* load_profile: fs is the set of profile files that exist, cfg the content
\* of the file it reads.  none is the None result.
load_profile(profile_path, ignore_profiles, build_modes, clean_repos, build_missing, fs, cfg) ==
    LET branch == ProfileBranch(profile_path, ignore_profiles, fs) IN
    IF branch = "missing"
    THEN [branch |-> branch, none |-> TRUE, read |-> None, raised |-> "",
          repos |-> <<>>]
    ELSE IF branch = "builtin"
    THEN [branch |-> branch, none |-> FALSE, read |-> None, raised |-> "",
          repos |-> DefaultRepos(build_modes, clean_repos, build_missing)]
    ELSE
    LET parsed == ParseRepos(cfg, 1, <<>>, clean_repos, build_missing) IN
        [branch |-> branch, none |-> FALSE,
         read   |-> IF branch = "default_file" THEN DEFAULT_PROFILE_PATH
                    ELSE profile_path,
         raised |-> parsed.raised, repos |-> parsed.repos]

----------------------------------------------------------------------------
(* The process *)

\* exit statuses the build wrapper is taken to report
ReturnCodes == {0, 1}

NoCfg == [repos |-> <<>>, sections |-> <<>>]

\* the clone orchestrator is not running
CloneIdle ==
    /\ c_pc = "idle"
    /\ c_tags = <<>>
    /\ c_file = [exists |-> FALSE, order |-> <<>>, sections |-> <<>>]
    /\ c_dirs = {}
    /\ c_profile = <<>>
    /\ c_idx = 0
    /\ c_selected = <<>>
    /\ c_cmds = <<>>
    /\ c_exit = -1

\* the setup script is not running
SetupIdle ==
    /\ s_pc = "idle"
    /\ s_args = [dry_run |-> FALSE, skip_conan |-> FALSE, skip_shell |-> FALSE,
                 use_bash |-> FALSE, use_zsh |-> FALSE]
    /\ s_env = FALSE
    /\ s_rc = <<>>
    /\ s_runs = 0
    /\ s_snap = <<>>

\* the build orchestrator has not been started
BuildIdle ==
    /\ cmd_args = [profile_path |-> None, ignore_profiles |-> FALSE,
                   build_modes |-> <<>>, clean_repos |-> None,
                   allow_failures |-> FALSE, build_missing |-> FALSE]
    /\ files = {}
    /\ dirs = {}
    /\ pc = "idle"
    /\ load = [branch |-> "", read |-> None, cfg |-> NoCfg]
    /\ profile = <<>>
    /\ idx = 0
    /\ mode_idx = 0
    /\ cwd = <<>>
    /\ orig_path = <<>>
    /\ invoked = <<>>
    /\ results = <<>>
    /\ main_ret = "pending"
    /\ raised = ""
    /\ exit_code = -1

Init ==
    /\ CloneIdle
    /\ SetupIdle
    /\ cmd_args \in CommandLines
    /\ files \in SUBSET {USER_PROFILE_PATH, DEFAULT_PROFILE_PATH}
    /\ (cmd_args.profile_path = None => USER_PROFILE_PATH \notin files)
    /\ dirs \in FileSystems
    /\ pc = "main"
    /\ load = [branch |-> "", read |-> None, cfg |-> NoCfg]
    /\ profile = <<>>
    /\ idx = 0
    /\ mode_idx = 0
    /\ cwd = <<>>
    /\ orig_path = <<>>
    /\ invoked = <<>>
    /\ results = <<>>
    /\ main_ret = "pending"
    /\ raised = ""
    /\ exit_code = -1

\* main's test after repo.build(), with the sense of allow_failures inverted
HaltBuild_Inverted(allow_failures, res) ==
    allow_failures = TRUE /\ res = "False"

\* main's test after repo.build(), written as "not res"
HaltBuild_NotRes(allow_failures, res) ==
    allow_failures = FALSE /\ res # "True"

\* main's test after repo.build(): None == False is false in Python
HaltBuild(allow_failures, res) ==
    allow_failures = FALSE /\ res = "False"

\* the repository main's loop is at
Repo == profile[idx]

\* the possible results of os.path.exists( path ) in directory dir: dirs
\* says what is in the start directory; whether a checkout holds a copy of
\* another one is not known, and nothing lies deeper than that
PathExists(dir, path) ==
    IF Len(Resolve(dir, path)) = 1 THEN { Resolve(dir, path) \in dirs }
    ELSE IF path.name \in Checkouts /\ Len(dir) = 1 THEN BOOLEAN
    ELSE {FALSE}

\* main up to the loop: load_profile, and "return 1" when there is no profile
LoadProfile ==
    /\ UNCHANGED <<cloneVars, setupVars>>
    /\ pc = "main"
    /\ \E cfg \in CfgFiles :
         LET p == load_profile(cmd_args.profile_path, cmd_args.ignore_profiles,
                               cmd_args.build_modes, cmd_args.clean_repos,
                               cmd_args.build_missing, files, cfg)
         IN  /\ load' = [branch |-> p.branch, read |-> p.read,
                         cfg |-> IF p.read = None THEN NoCfg ELSE cfg]
             /\ profile' = p.repos
             /\ raised' = p.raised
             /\ main_ret' = IF p.none THEN "1" ELSE main_ret
             /\ pc' = IF p.raised # "" THEN "raised"
                      ELSE IF p.none THEN "returned" ELSE "loop"
             /\ idx' = IF p.raised = "" /\ ~p.none THEN 1 ELSE idx
    /\ UNCHANGED <<cmd_args, files, dirs, mode_idx, cwd, orig_path, invoked,
                   results, exit_code>>

\* what main does with the result of repo.build()
AfterBuild(found, res, dir_before, dir_after) ==
    /\ results' = Append(results, [repo |-> idx, found |-> found, res |-> res,
                                   before |-> dir_before, after |-> dir_after])
    /\ IF HaltBuild(cmd_args.allow_failures, res)
       THEN /\ main_ret' = "1"
            /\ pc' = "returned"
            /\ idx' = idx
       ELSE /\ main_ret' = main_ret
            /\ pc' = "loop"
            /\ idx' = idx + 1

\* build() of a repository whose path does not exist: returns None at once
SkipRepo ==
    /\ UNCHANGED <<cloneVars, setupVars>>
    /\ pc = "loop"
    /\ idx <= Len(profile)
    /\ FALSE \in PathExists(cwd, Repo.repo_path)
    /\ AfterBuild(FALSE, None, cwd, cwd)
    /\ UNCHANGED <<cmd_args, files, dirs, load, profile, mode_idx, cwd,
                   orig_path, invoked, raised, exit_code>>

\* build() of a repository that is there: remember the directory, enter it
EnterRepo ==
    /\ UNCHANGED <<cloneVars, setupVars>>
    /\ pc = "loop"
    /\ idx <= Len(profile)
    /\ TRUE \in PathExists(cwd, Repo.repo_path)
    /\ orig_path' = cwd
    /\ cwd' = Resolve(cwd, Repo.repo_path)
    /\ mode_idx' = 1
    /\ pc' = "build"
    /\ UNCHANGED <<cmd_args, files, dirs, load, profile, idx, invoked,
                   results, main_ret, raised, exit_code>>

\* the command of the mode build's loop is at
Command == get_build_command(Repo.build_modes[mode_idx], Repo.clean_repo,
                             Repo.build_missing)

Invocation(rc) ==
    [ repo |-> idx, mode |-> mode_idx, build_mode |-> Repo.build_modes[mode_idx],
      clean_repo |-> Repo.clean_repo, cmd |-> Command.cmd, cwd |-> cwd,
      returncode |-> rc ]

\* get_build_command raises: nothing catches it
CommandRaises ==
    /\ UNCHANGED <<cloneVars, setupVars>>
    /\ pc = "build"
    /\ Command.raised # ""
    /\ raised' = Command.raised
    /\ pc' = "raised"
    /\ UNCHANGED <<cmd_args, files, dirs, load, profile, idx, mode_idx, cwd,
                   orig_path, invoked, results, main_ret, exit_code>>

\* one subprocess.run that reports success; after the last mode build goes
\* back to orig_path and returns True
BuildModeSucceeds ==
    /\ UNCHANGED <<cloneVars, setupVars>>
    /\ pc = "build"
    /\ Command.raised = ""
    /\ invoked' = Append(invoked, Invocation(0))
    /\ IF mode_idx < Len(Repo.build_modes)
       THEN /\ mode_idx' = mode_idx + 1
            /\ UNCHANGED <<cwd, results, main_ret, pc, idx>>
       ELSE /\ mode_idx' = mode_idx
            /\ cwd' = orig_path
            /\ AfterBuild(TRUE, "True", orig_path, orig_path)
    /\ UNCHANGED <<cmd_args, files, dirs, load, profile, orig_path, raised,
                   exit_code>>

\* one subprocess.run that reports a failure: build returns False from
\* inside the loop, and main halts unless failures are allowed
BuildModeFails ==
    /\ UNCHANGED <<cloneVars, setupVars>>
    /\ pc = "build"
    /\ Command.raised = ""
    /\ \E rc \in ReturnCodes \ {0} : invoked' = Append(invoked, Invocation(rc))
    /\ AfterBuild(TRUE, "False", orig_path, cwd)
    /\ UNCHANGED <<cmd_args, files, dirs, load, profile, mode_idx, cwd,
                   orig_path, raised, exit_code>>

\* main falls off the end of its loop
MainReturns ==
    /\ UNCHANGED <<cloneVars, setupVars>>
    /\ pc = "loop"
    /\ idx > Len(profile)
    /\ main_ret' = None
    /\ pc' = "returned"
    /\ UNCHANGED <<cmd_args, files, dirs, load, profile, idx, mode_idx, cwd,
                   orig_path, invoked, results, raised, exit_code>>

\* the exit status of "main()" as the script's last statement: the value
\* main returns is dropped, an uncaught exception gives 1
ExitStatus(ret, exc) == IF exc # "" THEN 1 ELSE 0

ProcessExit ==
    /\ UNCHANGED <<cloneVars, setupVars>>
    /\ pc \in {"returned", "raised"}
    /\ exit_code' = ExitStatus(main_ret, raised)
    /\ pc' = "exited"
    /\ UNCHANGED <<cmd_args, files, dirs, load, profile, idx, mode_idx, cwd,
                   orig_path, invoked, results, main_ret, raised>>

Next ==
    \/ LoadProfile
    \/ SkipRepo
    \/ EnterRepo
    \/ CommandRaises
    \/ BuildModeSucceeds
    \/ BuildModeFails
    \/ MainReturns
    \/ ProcessExit

Spec == Init /\ [][Next]_vars

----------------------------------------------------------------------------
(* Properties *)

Returned == pc \in {"returned", "exited"}

\* some build command was run for the k-th repository of the profile
Attempted(k) == \E m \in 1..Len(invoked) : invoked[m].repo = k

\* some build command of the k-th repository reported a non-zero status
FailedAt(k) ==
    \E m \in 1..Len(invoked) : invoked[m].repo = k /\ invoked[m].returncode # 0

\* the path of the k-th repository exists when the script starts
ExistsAtStart(k) == Resolve(<<>>, profile[k].repo_path) \in dirs

\* C1: without allow-failures a build command that reports a non-zero status
\* is the last one of the run: every earlier repository whose path exists
\* has been built, the failing repository is reported failed, main returns 1
\* and no command is issued for any later repository.
C1_HaltOnFailure ==
    ~cmd_args.allow_failures =>
        \A m \in 1..Len(invoked) :
            invoked[m].returncode # 0 =>
                /\ m = Len(invoked)
                /\ Returned /\ main_ret = "1"
                /\ Len(results) = invoked[m].repo
                /\ results[invoked[m].repo].res = "False"
                /\ \A j \in 1..(invoked[m].repo - 1) :
                       ExistsAtStart(j) => Attempted(j) /\ results[j].res = "True"

\* A, B and C are there, A was built, B failed, the run is over and C was
\* never attempted
C1_Witness ==
    /\ pc = "exited"
    /\ ~cmd_args.allow_failures
    /\ Len(profile) >= 3
    /\ \A k \in 1..3 : ExistsAtStart(k)
    /\ Len(results) = 2
    /\ results[1].res = "True" /\ Attempted(1)
    /\ results[2].res = "False" /\ FailedAt(2)
    /\ ~Attempted(3)

\* C2: with allow-failures, when the paths of the first three repositories
\* A, B and C exist at the start and only builds of B report a non-zero
\* status, then at the end A, B and C have each been built and only B is
\* marked failed.
C2_AllowFailuresBuildsAll ==
    ( /\ pc = "exited"
      /\ raised = ""
      /\ cmd_args.allow_failures
      /\ Len(profile) >= 3
      /\ \A k \in 1..3 : ExistsAtStart(k)
      /\ FailedAt(2)
      /\ \A m \in 1..Len(invoked) :
            invoked[m].returncode # 0 => invoked[m].repo = 2 )
    => \A k \in 1..3 :
          /\ Attempted(k)
          /\ results[k].res = IF k = 2 THEN "False" ELSE "True"

\* C3: every call of build leaves the working directory as it found it.
C3_BuildRestoresCwd ==
    \A k \in 1..Len(results) : results[k].after = results[k].before

\* the profile did not load: load_profile returned None or raised
LoadFailed == load.branch = "missing" \/ (raised # "" /\ idx = 0)

\* C4: the process exits with 1 when the profile fails to load and at the
\* first build failure when allow-failures is not set, and with 0 otherwise.
C4_ExitCode ==
    pc = "exited" =>
        exit_code = IF \/ LoadFailed
                       \/ (~cmd_args.allow_failures
                           /\ \E k \in 1..Len(profile) : FailedAt(k))
                    THEN 1 ELSE 0

\* C5: an explicit profile path that exists is the file that is parsed,
\* whatever ignore_profiles is, and the compiled-in default profile is used
\* only without an explicit path.
C5_FirstMatchWins ==
    pc # "main" =>
        /\ (cmd_args.profile_path # None /\ cmd_args.profile_path \in files)
              => load.read = cmd_args.profile_path
        /\ load.branch = "builtin"
              => /\ cmd_args.profile_path = None
                 /\ (cmd_args.ignore_profiles \/ DEFAULT_PROFILE_PATH \notin files)

\* C6: an explicit profile path that does not exist makes load_profile
\* return None whatever ignore_profiles is and whether or not the default
\* profile file exists; main returns 1 and nothing is built.
C6_MissingProfile ==
    (pc # "main" /\ cmd_args.profile_path # None
                 /\ cmd_args.profile_path \notin files)
    => /\ load.branch = "missing"
       /\ load.read = None
       /\ profile = <<>>
       /\ raised = ""
       /\ main_ret = "1"
       /\ invoked = <<>>
       /\ results = <<>>

\* the explicit path is missing while the default profile file is there and
\* profiles are not ignored
C6_Witness ==
    /\ pc = "exited"
    /\ cmd_args.profile_path # None
    /\ cmd_args.profile_path \notin files
    /\ DEFAULT_PROFILE_PATH \in files
    /\ ~cmd_args.ignore_profiles
    /\ main_ret = "1"

\* the modes a profile file configures for a repository
ConfiguredModes(repo_name) == Split(load.cfg.sections[repo_name].build_modes)

\* C7: every repository that is built is built in the command-line modes
\* when there are any, and in its own configured modes (both modes when it
\* has none) only when there are none.
C7_GlobalModesOverride ==
    \A m \in 1..Len(invoked) :
        LET repo == profile[invoked[m].repo] IN
        IF cmd_args.build_modes # <<>>
        THEN repo.build_modes = cmd_args.build_modes
        ELSE IF load.read = None
        THEN repo.build_modes = <<"release", "debug">>
        ELSE repo.build_modes = ConfiguredModes(repo.repo_name)

\* the clean flag the precedence of C8 gives a repository
ExpectedClean(repo) ==
    IF cmd_args.clean_repos # None THEN cmd_args.clean_repos
    ELSE IF Len(repo.build_modes) > 1 THEN "True"
    ELSE IF load.read # None
            /\ "clean_repo" \in DOMAIN load.cfg.sections[repo.repo_name]
    THEN getboolean(load.cfg.sections[repo.repo_name], "clean_repo")
    ELSE "False"

\* C8: every build command gets a boolean clean flag: the command-line
\* setting when given, else true for a repository with several modes, else
\* the repository's clean_repo, else false; building the command never fails
\* for want of a clean flag.
C8_CleanPrecedence ==
    /\ raised # "KeyError: clean_flag"
    /\ \A m \in 1..Len(invoked) :
          /\ invoked[m].clean_repo \in {"True", "False"}
          /\ invoked[m].clean_repo = ExpectedClean(profile[invoked[m].repo])

\* C9: a repository whose path does not exist at its turn is skipped: no
\* command is run for it, the working directory stays, main's loop moves on
\* to the next repository under either policy; a run that halts has halted
\* at a later, failed build, and a run that returns normally has processed
\* every repository.
C9_MissingRepoSkipped ==
    \A k \in 1..Len(results) :
        ~results[k].found =>
            /\ results[k].res = None
            /\ ~Attempted(results[k].repo)
            /\ results[k].after = results[k].before
            /\ idx > results[k].repo
            /\ (Returned /\ main_ret = "1")
                  => k < Len(results) /\ results[Len(results)].res = "False"
            /\ (Returned /\ main_ret = None) => Len(results) = Len(profile)

\* halting on failure, a missing repository was skipped and a later one built
C9_Witness ==
    /\ pc = "exited"
    /\ ~cmd_args.allow_failures
    /\ \E k \in 1..Len(results) :
          /\ ~results[k].found
          /\ \E j \in (k + 1)..Len(results) :
                results[j].res = "True" /\ Attempted(j)

\* the build commands come in increasing order of (repository position,
\* mode position)
InvocationOrder ==
    \A m, n \in 1..Len(invoked) :
        m < n => \/ invoked[m].repo < invoked[n].repo
                 \/ /\ invoked[m].repo = invoked[n].repo
                    /\ invoked[m].mode < invoked[n].mode

\* C10: the build commands come in increasing order of (repository
\* position, mode position), and no repository is built twice in one mode.
C10_NoPairTwice ==
    /\ InvocationOrder
    /\ \A m, n \in 1..Len(invoked) :
          m < n => ~( /\ invoked[m].repo = invoked[n].repo
                      /\ invoked[m].build_mode = invoked[n].build_mode )

\* the section of a profile file configures no build modes: the key is
\* absent or its value is empty
NoModesConfigured(section) ==
    "build_modes" \notin DOMAIN section \/ section.build_modes = <<>>

\* C14: a repository with no build modes specified is built in both modes,
\* release first: the records of the compiled-in default profile when no
\* mode is given on the command line, and the enabled records of a profile
\* file whose build_modes is empty or absent.
C14_NoModesMeansBoth ==
    pc # "main" =>
        /\ (load.branch = "builtin" /\ cmd_args.build_modes = <<>>)
              => \A k \in 1..Len(profile) :
                    profile[k].build_modes = <<"release", "debug">>
        /\ load.read # None
              => \A i \in 1..Len(load.cfg.repos) :
                    LET name == load.cfg.repos[i] IN
                    ( /\ getboolean(load.cfg.sections[name], "build") # "False"
                      /\ NoModesConfigured(load.cfg.sections[name]) )
                    => \E k \in 1..Len(profile) :
                          /\ profile[k].repo_name = name
                          /\ profile[k].build_modes = <<"release", "debug">>
        /\ \A m \in 1..Len(invoked) :
              profile[invoked[m].repo].build_modes = <<"release", "debug">>
                 => invoked[m].build_mode = <<"release", "debug">>[invoked[m].mode]

----------------------------------------------------------------------------
(* tmns-clone-repos.py: inputs *)

\* a profile file has at most this many repository sections
MaxCloneSections == 2

\* at most this many -t options on the command line
MaxTagArgs == 1

\* at most this many git commands fail of their own in one run
MaxFailures == 1

\* tmns/default_profiles.py: name, url, default_branch and tags, in the
\* order of the dictionary
CLONE_DEFAULT_REPO_LIST ==
    << [name |-> "terminus_setup", default_branch |-> "main",
        url |-> "git@github.com:Terminus-Geospatial/terminus_setup.git",
        tags |-> <<"tools">>],
       [name |-> "terminus_cmake", default_branch |-> "main",
        url |-> "git@github.com:Terminus-Geospatial/terminus_cmake.git",
        tags |-> <<"tools", "cpp", "cmake", "build">>],
       [name |-> "terminus_log", default_branch |-> "main",
        url |-> "git@github.com:Terminus-Geospatial/terminus_log.git",
        tags |-> <<"tools", "cpp", "log">>],
       [name |-> "terminus_outcome", default_branch |-> "main",
        url |-> "git@github.com:Terminus-Geospatial/terminus_outcome.git",
        tags |-> <<"tools", "cpp", "error">>],
       [name |-> "terminus_core", default_branch |-> "main",
        url |-> "git@github.com:Terminus-Geospatial/terminus_core.git",
        tags |-> <<"tools", "cpp">>],
       [name |-> "terminus_math", default_branch |-> "main",
        url |-> "git@github.com:Terminus-Geospatial/terminus_math.git",
        tags |-> <<"tools", "cpp">>],
       [name |-> "terminus_fcs", default_branch |-> "main",
        url |-> "git@github.com:Terminus-Geospatial/terminus_fcs.git",
        tags |-> <<"tools", "cpp">>],
       [name |-> "terminus_coord", default_branch |-> "main",
        url |-> "git@github.com:Terminus-Geospatial/terminus_coord.git",
        tags |-> <<"tools", "cpp">>],
       [name |-> "terminus_nitf", default_branch |-> "main",
        url |-> "git@github.com:Terminus-Geospatial/terminus_nitf.git",
        tags |-> <<"tools", "cpp">>],
       [name |-> "terminus_image", default_branch |-> "main",
        url |-> "git@github.com:Terminus-Geospatial/terminus_image.git",
        tags |-> <<"tools", "cpp">>],
       [name |-> "terminus_cpp_demos", default_branch |-> "main",
        url |-> "git@github.com:Terminus-Geospatial/terminus_cpp_demos.git",
        tags |-> <<"tools", "cpp">>],
       [name |-> "terminus_docs", default_branch |-> "main",
        url |-> "git@github.com:Terminus-Geospatial/terminus_docs.git",
        tags |-> <<"docs">>] >>

\* the -t values tried: two tags the default profile uses, one nobody uses
RequestedTags == {"cpp", "docs", "gpu"}

CloneTagArgs == SeqsUpTo(RequestedTags, MaxTagArgs)

\* the section names a profile file may use
CloneSectionNames ==
    { CLONE_DEFAULT_REPO_LIST[i].name : i \in 1..MaxCloneSections }

\* sections of a clone profile; a key that is absent is not in the DOMAIN.
\* tags is the raw text after the '=', one element per word, comma or blank.
CloneSecBare(n)    == [repo_url |-> "git@example.org:" \o n]
CloneSecFull(n)    == [repo_name |-> n, build |-> "false",
                       repo_url |-> "git@example.org:" \o n,
                       branch_name |-> "develop",
                       tags |-> <<"tools", ",", " ", "cpp">>]
CloneSecAlias(n)   == [repo_name |-> "terminus_setup", build |-> "yes",
                       repo_url |-> "git@example.org:fork",
                       tags |-> <<" ", "docs", ",", ",">>]
CloneSecUnnamed(n) == [repo_name |-> "", tags |-> <<"cpp">>]

CloneSectionsFor(n) ==
    { CloneSecBare(n), CloneSecFull(n), CloneSecAlias(n), CloneSecUnnamed(n) }

\* the orders in which a file can hold one to MaxCloneSections sections
CloneOrders ==
    { o \in SeqsUpTo(CloneSectionNames, MaxCloneSections) :
        /\ Len(o) >= 1
        /\ \A i, j \in 1..Len(o) : i # j => o[i] # o[j] }

\* the [profile] section: the project name and a repository list that names
\* the first repository section only
ProfileSection(o) == [project_name |-> "Workspace", repos |-> <<o[1]>>]

\* the profile files: repository sections in some order, with or without a
\* leading [profile] section
CloneFiles ==
    UNION { UNION { { [ exists |-> TRUE, order |-> o, sections |-> secs ],
                      [ exists |-> TRUE, order |-> <<"profile">> \o o,
                        sections |-> [ n \in {"profile"} \cup DOMAIN secs |->
                                         IF n = "profile" THEN ProfileSection(o)
                                         ELSE secs[n] ] ] } :
                    secs \in { f \in [ { o[i] : i \in 1..Len(o) } ->
                                       UNION { CloneSectionsFor(m) : m \in CloneSectionNames } ] :
                               \A n \in DOMAIN f : f[n] \in CloneSectionsFor(n) } } :
            o \in CloneOrders }

NoCloneFile == [exists |-> FALSE, order |-> <<>>, sections |-> <<>>]

\* the directories that may exist before the run
CloneDirsAtStart == SUBSET CloneSectionNames

----------------------------------------------------------------------------
(* tmns-clone-repos.py: load_profile *)

\* str.split(','): the pieces between commas, each a sequence of words and
\* blanks; the empty text gives one empty piece
RECURSIVE SplitPieces(_, _, _)
SplitPieces(text, piece, done) ==
    IF text = <<>> THEN Append(done, piece)
    ELSE IF Head(text) = "," THEN SplitPieces(Tail(text), <<>>, Append(done, piece))
    ELSE SplitPieces(Tail(text), Append(piece, Head(text)), done)

RECURSIVE lstrip(_)
lstrip(piece) ==
    IF piece # <<>> /\ Head(piece) = " " THEN lstrip(Tail(piece)) ELSE piece

RECURSIVE rstrip(_)
rstrip(piece) ==
    IF piece # <<>> /\ piece[Len(piece)] = " "
    THEN rstrip(SubSeq(piece, 1, Len(piece) - 1))
    ELSE piece

\* str.strip()
strip(piece) == rstrip(lstrip(piece))

\* the text of a piece
RECURSIVE Text(_)
Text(piece) == IF piece = <<>> THEN "" ELSE Head(piece) \o Text(Tail(piece))

\* [ tag.strip() for tag in tags_raw.split(',') if tag.strip() ]
RECURSIVE StripAll(_)
StripAll(pieces) ==
    IF pieces = <<>> THEN <<>>
    ELSE LET tag == strip(Head(pieces))
         IN  IF tag # <<>> THEN <<Text(tag)>> \o StripAll(Tail(pieces))
             ELSE StripAll(Tail(pieces))

\* cfg.get( section, key, fallback = ... ); the parser hands a value over
\* without the blanks around it
cfg_get(section, key, fallback) ==
    IF key \in DOMAIN section THEN section[key] ELSE fallback

\* cfg.getboolean( section, 'build', fallback = True )
cfg_getboolean(section, key, fallback) ==
    IF key \in DOMAIN section THEN BooleanStates[section[key]] = "True"
    ELSE fallback

\* the Repo of one section, with 'master' as the branch fallback
CloneRepoOf_BranchMaster(name, section) ==
    [ repo_name   |-> cfg_get(section, "repo_name", name),
      build       |-> cfg_getboolean(section, "build", TRUE),
      repo_url    |-> cfg_get(section, "repo_url", ""),
      branch_name |-> cfg_get(section, "branch_name", "master"),
      tags        |-> StripAll(SplitPieces(strip(cfg_get(section, "tags", <<>>)), <<>>, <<>>)) ]

\* the Repo load_profile appends for one section
CloneRepoOf(name, section) ==
    [ repo_name   |-> cfg_get(section, "repo_name", name),
      build       |-> cfg_getboolean(section, "build", TRUE),
      repo_url    |-> cfg_get(section, "repo_url", ""),
      branch_name |-> cfg_get(section, "branch_name", "main"),
      tags        |-> StripAll(SplitPieces(strip(cfg_get(section, "tags", <<>>)), <<>>, <<>>)) ]

\* the loop over cfg.sections(), 'profile' passed over
RECURSIVE CloneParseRepos(_, _)
CloneParseRepos(order, sections) ==
    IF order = <<>> THEN <<>>
    ELSE IF Head(order) = "profile" THEN CloneParseRepos(Tail(order), sections)
    ELSE <<CloneRepoOf(Head(order), sections[Head(order)])>>
         \o CloneParseRepos(Tail(order), sections)

\* default_repo_list(): one Repo per entry of the dictionary, build set
default_repo_list ==
    [ i \in 1..Len(CLONE_DEFAULT_REPO_LIST) |->
        [ repo_name   |-> CLONE_DEFAULT_REPO_LIST[i].name,
          build       |-> TRUE,
          repo_url    |-> CLONE_DEFAULT_REPO_LIST[i].url,
          branch_name |-> CLONE_DEFAULT_REPO_LIST[i].default_branch,
          tags        |-> CLONE_DEFAULT_REPO_LIST[i].tags ] ]

\* load_profile(): the repos of the profile
clone_load_profile(file) ==
    IF file.exists THEN CloneParseRepos(file.order, file.sections)
    ELSE default_repo_list

----------------------------------------------------------------------------
(* tmns-clone-repos.py: main *)

InList(x, list) == \E k \in 1..Len(list) : list[k] = x

\* the tag test of main, without the test for an empty -t list
PassesFilter_EmptySelectsNone(repo, tags) ==
    \E k \in 1..Len(repo.tags) : InList(repo.tags[k], tags)

\* the tag test of main: FALSE where the loop takes 'continue'
PassesFilter(repo, tags) ==
    IF Len(tags) > 0
    THEN \E k \in 1..Len(repo.tags) : InList(repo.tags[k], tags)
    ELSE TRUE

\* where main goes after os.system( clone_cmd ), stopping at a failure
AfterClone_SkipOnFailure(status) == IF status # 0 THEN "loop" ELSE "checkout"

\* where main goes after os.system( clone_cmd ): the status is dropped
AfterClone(status) == "checkout"

\* the statuses os.system can return; 128 is git's fatal error
GitStatuses == {0, 128}

Failures(cmds) == Cardinality({ k \in 1..Len(cmds) : cmds[k].status # 0 })

\* the checkout runs in a directory that is not there
CheckoutInMissingDir(cmds) ==
    cmds # <<>> /\ cmds[Len(cmds)].kind = "clone" /\ cmds[Len(cmds)].status # 0

\* the statuses a command may return now
MayReturn(cmds, st) ==
    \/ st = 0 /\ ~CheckoutInMissingDir(cmds)
    \/ st # 0 /\ (CheckoutInMissingDir(cmds) \/ Failures(cmds) < MaxFailures)

CloneRepo == c_profile[c_idx]

\* load_profile() in main
CloneLoadProfile ==
    /\ c_pc = "start"
    /\ c_profile' = clone_load_profile(c_file)
    /\ c_idx' = 1
    /\ c_pc' = "loop"
    /\ UNCHANGED <<c_tags, c_file, c_dirs, c_selected, c_cmds, c_exit>>
    /\ UNCHANGED <<buildVars, setupVars>>

\* 'continue' of the tag filter
CloneFiltered ==
    /\ c_pc = "loop"
    /\ c_idx <= Len(c_profile)
    /\ ~PassesFilter(CloneRepo, c_tags)
    /\ c_idx' = c_idx + 1
    /\ UNCHANGED <<c_pc, c_tags, c_file, c_dirs, c_profile, c_selected, c_cmds, c_exit>>
    /\ UNCHANGED <<buildVars, setupVars>>

\* 'continue' of the test for the destination directory
CloneSkipExisting ==
    /\ c_pc = "loop"
    /\ c_idx <= Len(c_profile)
    /\ PassesFilter(CloneRepo, c_tags)
    /\ CloneRepo.repo_name \in c_dirs
    /\ c_selected' = Append(c_selected, [idx |-> c_idx, existed |-> TRUE])
    /\ c_idx' = c_idx + 1
    /\ UNCHANGED <<c_pc, c_tags, c_file, c_dirs, c_profile, c_cmds, c_exit>>
    /\ UNCHANGED <<buildVars, setupVars>>

\* os.system( clone_cmd ): a clone that succeeds leaves the directory
\* repo_name; with an empty repo_name git picks the directory from the url
CloneRun ==
    /\ c_pc = "loop"
    /\ c_idx <= Len(c_profile)
    /\ PassesFilter(CloneRepo, c_tags)
    /\ CloneRepo.repo_name \notin c_dirs
    /\ \E st \in GitStatuses :
         /\ MayReturn(c_cmds, st)
         /\ c_cmds' = Append(c_cmds, [kind |-> "clone", idx |-> c_idx,
                                      text |-> <<"git clone", CloneRepo.repo_url,
                                                 CloneRepo.repo_name>>,
                                      status |-> st])
         /\ c_dirs' = IF st = 0 /\ CloneRepo.repo_name # ""
                      THEN c_dirs \cup {CloneRepo.repo_name} ELSE c_dirs
         /\ c_pc' = AfterClone(st)
         /\ c_idx' = IF AfterClone(st) = "loop" THEN c_idx + 1 ELSE c_idx
    /\ c_selected' = Append(c_selected, [idx |-> c_idx, existed |-> FALSE])
    /\ UNCHANGED <<c_tags, c_file, c_profile, c_exit>>
    /\ UNCHANGED <<buildVars, setupVars>>

\* os.system( checkout_cmd )
CheckoutRun ==
    /\ c_pc = "checkout"
    /\ \E st \in GitStatuses :
         /\ MayReturn(c_cmds, st)
         /\ c_cmds' = Append(c_cmds, [kind |-> "checkout", idx |-> c_idx,
                                      text |-> <<"git -C", CloneRepo.repo_name,
                                                 "checkout", CloneRepo.branch_name>>,
                                      status |-> st])
    /\ c_idx' = c_idx + 1
    /\ c_pc' = "loop"
    /\ UNCHANGED <<c_tags, c_file, c_dirs, c_profile, c_selected, c_exit>>
    /\ UNCHANGED <<buildVars, setupVars>>

\* main runs off its end and the interpreter exits with 0
CloneExit ==
    /\ c_pc = "loop"
    /\ c_idx > Len(c_profile)
    /\ c_pc' = "done"
    /\ c_exit' = 0
    /\ UNCHANGED <<c_tags, c_file, c_dirs, c_profile, c_idx, c_selected, c_cmds>>
    /\ UNCHANGED <<buildVars, setupVars>>

InitClone ==
    /\ BuildIdle
    /\ SetupIdle
    /\ c_pc = "start"
    /\ c_tags \in CloneTagArgs
    /\ c_file \in CloneFiles \cup {NoCloneFile}
    /\ c_dirs \in CloneDirsAtStart
    /\ c_profile = <<>>
    /\ c_idx = 0
    /\ c_selected = <<>>
    /\ c_cmds = <<>>
    /\ c_exit = -1

NextClone ==
    \/ CloneLoadProfile
    \/ CloneFiltered
    \/ CloneSkipExisting
    \/ CloneRun
    \/ CheckoutRun
    \/ CloneExit

SpecClone == InitClone /\ [][NextClone]_vars

----------------------------------------------------------------------------
(* tmns-clone-repos.py: properties *)

CloneLoaded == c_pc \in {"loop", "checkout", "done"}

\* the repository sections of the file, in file order
RepoSections == SelectSeq(c_file.order, LAMBDA n : n # "profile")

\* the repository sections the [profile] section's list names
ListedSections ==
    { n \in { RepoSections[i] : i \in 1..Len(RepoSections) } :
        InList(n, c_file.sections["profile"].repos) }

\* the tags a raw value declares: its words, in order
DeclaredTags(raw) == SelectSeq(raw, LAMBDA w : w \notin {",", " "})

\* C11 as stated: a profile loaded from a file with a repository list holds
\* one record per section the list names, sections not listed being ignored.
C11_OnlyListedSections ==
    (CloneLoaded /\ c_file.exists /\ InList("profile", c_file.order))
        => Len(c_profile) = Cardinality(ListedSections)

\* C11: a profile loaded from a file holds exactly one record per section
\* other than 'profile', in file order and whatever a repository list says,
\* records with build = false included; each field is the declared value, or
\* the section name, true, '', 'main' and no tags where the key is absent.
C11_OneRecordPerSection ==
    (CloneLoaded /\ c_file.exists) =>
        /\ Len(c_profile) = Len(RepoSections)
        /\ \A i \in 1..Len(RepoSections) :
             LET sec == c_file.sections[RepoSections[i]]
                 r   == c_profile[i]
             IN  /\ r.repo_name = IF "repo_name" \in DOMAIN sec THEN sec.repo_name
                                  ELSE RepoSections[i]
                 /\ r.build = IF "build" \in DOMAIN sec
                              THEN sec.build \in {"true", "yes", "on"}
                              ELSE TRUE
                 /\ r.repo_url = IF "repo_url" \in DOMAIN sec THEN sec.repo_url ELSE ""
                 /\ r.branch_name = IF "branch_name" \in DOMAIN sec THEN sec.branch_name
                                    ELSE "main"
                 /\ r.tags = IF "tags" \in DOMAIN sec THEN DeclaredTags(sec.tags)
                             ELSE <<>>

\* a file with a repository list naming one of its two sections is loaded:
\* both sections give a record, one with build = false, one all defaults
C11_Witness ==
    /\ CloneLoaded
    /\ c_file.exists
    /\ InList("profile", c_file.order)
    /\ Len(c_profile) = 2
    /\ Cardinality(ListedSections) = 1
    /\ \E i, j \in 1..2 :
         /\ ~c_profile[i].build
         /\ c_profile[i].tags = <<"tools", "cpp">>
         /\ c_profile[j].build
         /\ c_profile[j].branch_name = "main"
         /\ c_profile[j].tags = <<>>
         /\ c_profile[j].repo_name = RepoSections[j]

\* C12: every loaded profile has non-empty, pairwise distinct repository
\* names (a file that would give another is rejected and gives no profile).
C12_NamesNonEmptyAndDistinct ==
    CloneLoaded =>
        \A i, j \in 1..Len(c_profile) :
            /\ c_profile[i].repo_name # ""
            /\ (i # j => c_profile[i].repo_name # c_profile[j].repo_name)

\* the repository has a tag among the requested ones, or none is requested
Selected(repo) ==
    \/ c_tags = <<>>
    \/ { repo.tags[k] : k \in 1..Len(repo.tags) }
         \cap { c_tags[k] : k \in 1..Len(c_tags) } # {}

\* the repositories the loop is through with
Processed == IF c_pc = "checkout" THEN c_idx ELSE c_idx - 1

\* C13: the repositories taken so far are, in profile order, exactly the
\* processed ones that have a requested tag, or all of them when no tag is
\* requested; the run ends with status 0 whatever was requested.
C13_TagFilter ==
    CloneLoaded =>
        /\ [ k \in 1..Len(c_selected) |-> c_selected[k].idx ]
             = SelectSeq([ i \in 1..Processed |-> i ],
                         LAMBDA i : Selected(c_profile[i]))
        /\ (c_pc = "done" => c_exit = 0)

\* a run with a requested tag ended, having taken some repositories of the
\* profile and passed over others
C13_Witness ==
    /\ c_pc = "done"
    /\ c_tags # <<>>
    /\ Len(c_selected) >= 2
    /\ Len(c_selected) < Len(c_profile)
    /\ \E i \in 1..Len(c_profile) : ~Selected(c_profile[i])

\* the commands issued for repository i, in order
CmdsOf(i) == SelectSeq(c_cmds, LAMBDA c : c.idx = i)

\* the destination of repository i was there when its turn came
ExistedBefore(i) ==
    /\ c_profile[i].repo_name \in c_dirs
    /\ ~ \E k \in 1..Len(c_cmds) :
           /\ c_cmds[k].kind = "clone"
           /\ c_cmds[k].status = 0
           /\ c_cmds[k].idx >= i
           /\ c_profile[c_cmds[k].idx].repo_name = c_profile[i].repo_name

\* C16: a checkout always follows the clone of its repository at once, also
\* a failed one; at the end every selected repository whose destination was
\* missing has had one clone and then one checkout, whatever failed before
\* it, every other repository has had no command, and the status is 0.
C16_BestEffort ==
    /\ \A k \in 1..Len(c_cmds) :
         /\ c_cmds[k].kind = "checkout" =>
              k > 1 /\ c_cmds[k-1].kind = "clone" /\ c_cmds[k-1].idx = c_cmds[k].idx
         /\ (c_cmds[k].kind = "clone" /\ k < Len(c_cmds)) =>
              c_cmds[k+1].kind = "checkout" /\ c_cmds[k+1].idx = c_cmds[k].idx
    /\ c_pc = "done" =>
         /\ c_exit = 0
         /\ \A i \in 1..Len(c_profile) :
              IF Selected(c_profile[i]) /\ ~ExistedBefore(i)
              THEN /\ Len(CmdsOf(i)) = 2
                   /\ CmdsOf(i)[1].kind = "clone"
                   /\ CmdsOf(i)[2].kind = "checkout"
              ELSE CmdsOf(i) = <<>>

\* a run ended in which a clone failed, its checkout was issued all the
\* same, and a later repository was cloned
C16_Witness ==
    /\ c_pc = "done"
    /\ c_exit = 0
    /\ \E k \in 1..Len(c_cmds) :
         /\ c_cmds[k].kind = "clone"
         /\ c_cmds[k].status # 0
         /\ k + 2 <= Len(c_cmds)
         /\ c_cmds[k+1].kind = "checkout"
         /\ c_cmds[k+1].idx = c_cmds[k].idx
         /\ c_cmds[k+2].kind = "clone"
         /\ c_cmds[k+2].status = 0

\* C17: after a clone of the default profile in which every command
\* succeeded, every path of the build orchestrator's default repository list
\* is a directory of the workspace.
C17_DefaultsConsistent ==
    (c_pc = "done" /\ ~c_file.exists /\ c_tags = <<>> /\ Failures(c_cmds) = 0)
        => \A i \in 1..Len(DEFAULT_REPO_LIST) : DEFAULT_REPO_LIST[i] \in c_dirs

----------------------------------------------------------------------------
(* setup-terminus.py: the shell configuration files *)

\* the script is run at most this many times in one environment
MaxSetupRuns == 2

\* the rc files of the home directory the script looks at
RcFiles == {".bashrc", ".bash_profile", ".zshrc"}

\* a file's text is the sequence of its lines
PATH_LINE == "export PATH=\"${HOME}/.local/bin:${PATH}\""

TMNS_IMPORT_BLOCK ==
    << "",
       "# Added by terminus-repo-utilities: install-local.bash",
       "function tmns-import() {",
       "   source ${HOME}/.local/bin/tmns_bash_aliases.bash",
       "}" >>

GO_CONAN_BLOCK ==
    << "# This function added by Terminus setup-conan script.",
       "function go-conan() {",
       "    . ${venv_path}/bin/activate",
       "}" >>

\* the lines of the explored files in which a marker occurs
LinesWith ==
    [ tmns_import |-> {"function tmns-import() {", "alias ti=tmns-import"},
      go_conan    |-> {"function go-conan() {"} ]

\* marker in text
Occurs(marker, text) == \E k \in 1..Len(text) : text[k] \in LinesWith[marker]

\* what an rc file holds before the first run
UserTexts == { <<>>, <<"# user settings">>, <<"alias ti=tmns-import">> }

RcFileStates ==
    { [exists |-> FALSE, text |-> <<>>] }
        \cup { [exists |-> TRUE, text |-> t] : t \in UserTexts }

SetupCommandLines ==
    [ dry_run : BOOLEAN, skip_conan : BOOLEAN, skip_shell : BOOLEAN,
      use_bash : BOOLEAN, use_zsh : BOOLEAN ]

\* update_tmns_shell: the file afterwards; in_path says that ~/.local/bin is
\* an entry of the PATH of the environment
update_tmns_shell(file, in_path, dry_run) ==
    IF ~file.exists THEN file
    ELSE LET text == file.text
             with_path == IF in_path \/ dry_run THEN text
                          ELSE Append(text, PATH_LINE)
         IN  [ file EXCEPT !.text = IF Occurs("tmns_import", text) \/ dry_run
                                    THEN with_path
                                    ELSE with_path \o TMNS_IMPORT_BLOCK ]

\* the shell_paths list of install_helper_scripts
shell_paths(args, rc) ==
    LET chosen == (IF args.use_bash THEN <<".bashrc">> ELSE <<>>)
                    \o (IF args.use_zsh THEN <<".zshrc">> ELSE <<>>)
    IN  IF chosen # <<>> THEN chosen
        ELSE SelectSeq(<<".zshrc", ".bashrc">>, LAMBDA f : rc[f].exists)

\* the loop over shell_paths
RECURSIVE UpdateEach(_, _, _, _)
UpdateEach(paths, rc, in_path, dry_run) ==
    IF paths = <<>> THEN rc
    ELSE UpdateEach(Tail(paths),
                    [ rc EXCEPT ![Head(paths)] =
                        update_tmns_shell(rc[Head(paths)], in_path, dry_run) ],
                    in_path, dry_run)

\* install_helper_scripts: the rc files afterwards
install_helper_scripts(rc, args, in_path) ==
    IF args.skip_shell THEN rc
    ELSE UpdateEach(shell_paths(args, rc), rc, in_path, args.dry_run)

\* update_shell_scripts: the rc files afterwards; run_command issues the
\* echo lines unless dry_run is set
update_shell_scripts(rc, dry_run) ==
    [ f \in RcFiles |->
        IF rc[f].exists /\ ~Occurs("go_conan", rc[f].text) /\ ~dry_run
        THEN [ rc[f] EXCEPT !.text = rc[f].text \o GO_CONAN_BLOCK ]
        ELSE rc[f] ]

\* main: install_helper_scripts( ... )
InstallHelperScripts ==
    /\ s_pc = "start"
    /\ s_rc' = install_helper_scripts(s_rc, s_args, s_env)
    /\ s_pc' = "conan"
    /\ UNCHANGED <<s_args, s_env, s_runs, s_snap>>
    /\ UNCHANGED <<buildVars, cloneVars>>

\* the end of a run of main: the files as the first run leaves them are kept
\* for comparison
EndOfRun(rc) ==
    /\ s_pc' = "done"
    /\ s_runs' = s_runs + 1
    /\ s_snap' = IF s_runs = 0 THEN rc ELSE s_snap

\* main: cmd_args.skip_conan is set
SkipConan ==
    /\ s_pc = "conan"
    /\ s_args.skip_conan
    /\ EndOfRun(s_rc)
    /\ UNCHANGED <<s_args, s_env, s_rc>>
    /\ UNCHANGED <<buildVars, cloneVars>>

\* main: run_conan_setup( ... ) with every command succeeding
RunConanSetup ==
    /\ s_pc = "conan"
    /\ ~s_args.skip_conan
    /\ s_rc' = update_shell_scripts(s_rc, s_args.dry_run)
    /\ EndOfRun(s_rc')
    /\ UNCHANGED <<s_args, s_env>>
    /\ UNCHANGED <<buildVars, cloneVars>>

\* run_conan_setup: a command of the virtual environment fails, and
\* subprocess.run( check = True ) raises before update_shell_scripts
ConanSetupRaises ==
    /\ s_pc = "conan"
    /\ ~s_args.skip_conan
    /\ ~s_args.dry_run
    /\ s_pc' = "raised"
    /\ UNCHANGED <<s_args, s_env, s_rc, s_runs, s_snap>>
    /\ UNCHANGED <<buildVars, cloneVars>>

\* the script is run again with the same options in the same environment
SetupAgain ==
    /\ s_pc = "done"
    /\ s_runs < MaxSetupRuns
    /\ s_pc' = "start"
    /\ UNCHANGED <<s_args, s_env, s_rc, s_runs, s_snap>>
    /\ UNCHANGED <<buildVars, cloneVars>>

InitSetup ==
    /\ BuildIdle
    /\ CloneIdle
    /\ s_pc = "start"
    /\ s_args \in SetupCommandLines
    /\ s_env \in BOOLEAN
    /\ s_rc \in [RcFiles -> RcFileStates]
    /\ s_runs = 0
    /\ s_snap = [f \in RcFiles |-> [exists |-> FALSE, text |-> <<>>]]

NextSetup ==
    \/ InstallHelperScripts
    \/ SkipConan
    \/ RunConanSetup
    \/ ConanSetupRaises
    \/ SetupAgain

SpecSetup == InitSetup /\ [][NextSetup]_vars

\* C15: two runs of the shell steps, not dry runs, in one environment leave
\* every rc file as the first run left it.
C15_ShellUpdatesIdempotent ==
    (s_pc = "done" /\ s_runs >= 2 /\ ~s_args.dry_run) => s_rc = s_snap

====
